---- MODULE Spec2Model ----
(***************************************************************************)
(* A model of DataClaw's CSV tools (src/server.py): the Numeric Coercion   *)
(* Filter, the Column Role Detector, the Encoding/Delimiter Resolver, the  *)
(* three public operations analyze_csv, clean_csv and csv_info, and two    *)
(* concurrent invocations writing their output files.                      *)
(*                                                                         *)
(* Text is modelled as a sequence of one-character strings, so that        *)
(* stripping, replacing, lowercasing and substring search are computed     *)
(* character by character as the code computes them.                       *)
(***************************************************************************)
EXTENDS Integers, Sequences, FiniteSets, TLC

VARIABLES
    series,     \* SpecCoerce: the column handed to coerce_numeric_if_majority
    coerced,    \* SpecCoerce: what coerce_numeric_if_majority returned
    columns,    \* SpecDetect: df.columns, left to right
    roles,      \* what detectar_colunas returned (value_col, date_col, cat_col)
    T,          \* SpecCleaner: the table whose first k rows are appended to it
    k,          \* SpecCleaner: how many of T's first rows are appended
    disk,       \* the file clean_csv wrote to outputs/<output_name>
    run1,       \* SpecCleaner: the counts clean_csv reported for T + T[:k]
    run2,       \* SpecCleaner: the counts clean_csv reported for its own output
    op,         \* Spec: the public operation invoked
    file,       \* Spec: the file at file_path
    pc,         \* Spec: the statement the invocation is at
    attempts,   \* Spec: the read_csv calls made so far, by encoding
    df,         \* Spec: the frame in hand
    num_df,     \* Spec: the names of df's numeric columns, as line 120 selects them
    validDates, \* Spec: valid_dates.sum(), 0 until line 142 sets it
    report,     \* Spec: the sections appended to the report so far
    chart,      \* Spec: the chart shape chosen and whether it was saved
    ret,        \* Spec: what the invocation returned, or raised past its boundary
    now,        \* SpecConcurrent: datetime.now(), in ticks
    inv,        \* SpecConcurrent: the invocations in flight
    outputs     \* SpecConcurrent: the files written under outputs/, with their writer

coerceVars == <<series, coerced>>
detectVars == <<columns, roles>>
cleanerVars == <<T, k, disk, run1, run2>>
toolVars == <<op, file, pc, attempts, df, num_df, validDates, report, chart, ret>>
concVars == <<now, inv, outputs>>
vars ==
    <<series, coerced, columns, roles, T, k, disk, run1, run2,
      op, file, pc, attempts, df, num_df, validDates, report, chart, ret,
      now, inv, outputs>>

(***************************************************************************)
(* Cells.  A cell is a string, a number (num / 10^scale, kept in lowest    *)
(* terms so that 1,50 and 1,5 are the same number) or the missing marker.  *)
(***************************************************************************)
Str(s) == [kind |-> "str", chars |-> s, num |-> 0, scale |-> 0]
Num(n, sc) == [kind |-> "num", chars |-> <<>>, num |-> n, scale |-> sc]
NaN == [kind |-> "nan", chars |-> <<>>, num |-> 0, scale |-> 0]
Unset == [dtype |-> "unset", cells |-> <<>>]

Digits == {"0", "1", "2", "3", "4", "5", "6", "7", "8", "9"}

DigitVal(c) ==
    CASE c = "0" -> 0 [] c = "1" -> 1 [] c = "2" -> 2 [] c = "3" -> 3
      [] c = "4" -> 4 [] c = "5" -> 5 [] c = "6" -> 6 [] c = "7" -> 7
      [] c = "8" -> 8 [] c = "9" -> 9

RECURSIVE DigitsValue(_)
DigitsValue(d) ==
    IF d = <<>> THEN 0
    ELSE 10 * DigitsValue(SubSeq(d, 1, Len(d) - 1)) + DigitVal(d[Len(d)])

RECURSIVE Normalize(_, _)
Normalize(n, sc) ==
    IF sc > 0 /\ n % 10 = 0 THEN Normalize(n \div 10, sc - 1) ELSE Num(n, sc)

Count(s, c) == Cardinality({i \in 1..Len(s) : s[i] = c})

\* str.replace(r"[^\d.,\-]", "", regex=True): keep digits, '.', ',' and '-'.
IsNumericChar(c) == c \in Digits \cup {".", ",", "-"}
StripNonNumeric(s) == SelectSeq(s, IsNumericChar)

\* str.replace(",", "."): every comma becomes a period.
ReplaceComma(s) == [i \in 1..Len(s) |-> IF s[i] = "," THEN "." ELSE s[i]]

\* The float grammar pd.to_numeric accepts over the characters that survive
\* the strip: an optional leading '-', digits with at most one '.', and at
\* least one digit.  Anything else, the empty string included, is missing
\* (errors="coerce").
to_numeric(s) ==
    LET neg == Len(s) > 0 /\ s[1] = "-"
        body == IF neg THEN Tail(s) ELSE s
        dot == Count(body, ".")
        IsDigit(c) == c \in Digits
        ds == SelectSeq(body, IsDigit)
        pos == CHOOSE i \in 1..Len(body) : body[i] = "."
        sc == IF dot = 1 THEN Len(body) - pos ELSE 0
        v == Normalize(DigitsValue(ds), sc)
    IN  IF /\ \A i \in 1..Len(body) : body[i] \in Digits \cup {"."}
           /\ dot <= 1
           /\ Len(ds) >= 1
        THEN Num(IF neg THEN 0 - v.num ELSE v.num, v.scale)
        ELSE NaN

\* series.astype(str): a string is itself, the missing marker prints as "nan".
\* (The filter is applied to object columns only: no numeric cell reaches it.)
astype_str(cell) == IF cell.kind = "str" THEN cell.chars ELSE <<"n", "a", "n">>

\* threshold: float = 0.7, kept as the rational 7/10.  valid_ratio is the
\* correctly rounded quotient of two integers and 0.7 the correctly rounded
\* literal, so valid_ratio >= 0.7 decides as 10 * valid >= 7 * n does for
\* every column shorter than 2^50 rows.
ThresholdNum == 7
ThresholdDen == 10

Max(a, b) == IF a >= b THEN a ELSE b

Converted(s) ==
    [i \in 1..Len(s.cells) |->
        to_numeric(ReplaceComma(StripNonNumeric(astype_str(s.cells[i]))))]

NotNa(cells) == Cardinality({i \in 1..Len(cells) : cells[i].kind # "nan"})

coerce_always(s) == [dtype |-> "number", cells |-> Converted(s)]

coerce_numeric_if_majority(s) ==
    LET converted == Converted(s)
        valid == NotNa(converted)
        n == Max(Len(s.cells), 1)
    IN  IF valid * ThresholdDen >= ThresholdNum * n
        THEN [dtype |-> "number", cells |-> converted]
        ELSE s

(***************************************************************************)
(* SpecCoerce: the filter applied to one text column.                      *)
(***************************************************************************)
MaxLen == 4
LongLen == 10

Cliente_1234 == Str(<<"C", "l", "i", "e", "n", "t", "e", "_", "1", "2", "3", "4">>)
iPhone_15 == Str(<<"i", "P", "h", "o", "n", "e", " ", "1", "5">>)
S5 == Str(<<"5">>)
S10 == Str(<<"1", "0">>)
S7 == Str(<<"7">>)
Sdez == Str(<<"d", "e", "z">>)

CellPool ==
    { S5, S10, Sdez, S7, Cliente_1234, iPhone_15, NaN,
      Str(<<"R", "$", " ", "1", ",", "5", "0">>),
      Str(<<"-", "2", ".", "5">>),
      Str(<<"1", ".", "2", ".", "3">>) }

SeqsUpTo(S, n) == UNION {[1..m -> S] : m \in 0..n}

ObjectColumn(cells) == [dtype |-> "object", cells |-> cells]

CoerceInputs ==
    {ObjectColumn(c) : c \in SeqsUpTo(CellPool, MaxLen)}
        \cup {ObjectColumn(c) :
                c \in UNION {[1..m -> {S5, Sdez}] : m \in {LongLen - 1, LongLen}}}

CoerceIdle == series = ObjectColumn(<<>>) /\ coerced = Unset

(***************************************************************************)
(* Column Role Detector.                                                   *)
(***************************************************************************)
UpperCase ==
    <<"A", "B", "C", "D", "E", "F", "G", "H", "I", "J", "K", "L", "M",
      "N", "O", "P", "Q", "R", "S", "T", "U", "V", "W", "X", "Y", "Z">>
LowerCase ==
    <<"a", "b", "c", "d", "e", "f", "g", "h", "i", "j", "k", "l", "m",
      "n", "o", "p", "q", "r", "s", "t", "u", "v", "w", "x", "y", "z">>

\* c.lower()
lower(s) ==
    [i \in 1..Len(s) |->
        IF \E j \in 1..26 : UpperCase[j] = s[i]
        THEN LowerCase[CHOOSE j \in 1..26 : UpperCase[j] = s[i]]
        ELSE s[i]]

\* kw in c: kw occurs in c as a contiguous substring.
Contains(s, kw) ==
    \E i \in 0..(Len(s) - Len(kw)) : SubSeq(s, i + 1, i + Len(kw)) = kw

ValueKeywords ==
    << <<"t", "o", "t", "a", "l">>, <<"v", "a", "l", "o", "r">>,
       <<"r", "e", "c", "e", "i", "t", "a">>,
       <<"f", "a", "t", "u", "r", "a", "m", "e", "n", "t", "o">>,
       <<"p", "r", "e", "c", "o">>, <<"p", "r", "i", "c", "e">> >>
DateKeywords ==
    << <<"d", "a", "t", "a">>, <<"d", "a", "t", "e">>, <<"d", "t", "_">>,
       <<"_", "d", "t">>, <<"p", "e", "r", "i", "o", "d", "o">> >>
CatKeywords ==
    << <<"c", "a", "t", "e", "g", "o", "r", "i", "a">>,
       <<"p", "r", "o", "d", "u", "t", "o">>,
       <<"v", "e", "n", "d", "e", "d", "o", "r">>,
       <<"s", "t", "a", "t", "u", "s">>, <<"c", "i", "d", "a", "d", "e">> >>

None == [found |-> FALSE, name |-> <<>>]
Found(c) == [found |-> TRUE, name |-> c]
NoRoles == [value |-> None, date |-> None, cat |-> None, done |-> FALSE]

\* any(k in c.lower() for k in keywords)
AnyKeyword(c, keywords) ==
    \E j \in 1..Len(keywords) : Contains(lower(c), keywords[j])

\* next((c for c in df.columns if any(...)), None)
RECURSIVE NextMatch(_, _)
NextMatch(cols, keywords) ==
    IF cols = <<>> THEN None
    ELSE IF AnyKeyword(Head(cols), keywords) THEN Found(Head(cols))
    ELSE NextMatch(Tail(cols), keywords)

RECURSIVE LastMatch(_, _)
LastMatch(cols, keywords) ==
    IF cols = <<>> THEN None
    ELSE IF AnyKeyword(cols[Len(cols)], keywords) THEN Found(cols[Len(cols)])
    ELSE LastMatch(SubSeq(cols, 1, Len(cols) - 1), keywords)

detectar_last(cols) ==
    [value |-> LastMatch(cols, ValueKeywords),
     date |-> LastMatch(cols, DateKeywords),
     cat |-> LastMatch(cols, CatKeywords),
     done |-> TRUE]

detectar_colunas(cols) ==
    [value |-> NextMatch(cols, ValueKeywords),
     date |-> NextMatch(cols, DateKeywords),
     cat |-> NextMatch(cols, CatKeywords),
     done |-> TRUE]

(***************************************************************************)
(* SpecDetect: the detector applied to one header.                         *)
(***************************************************************************)
MaxCols == 4

ID_Venda == <<"I", "D", "_", "V", "e", "n", "d", "a">>
Data == <<"D", "a", "t", "a">>
Total_Venda == <<"T", "o", "t", "a", "l", "_", "V", "e", "n", "d", "a">>
Categoria == <<"C", "a", "t", "e", "g", "o", "r", "i", "a">>
Valor_Unitario ==
    <<"V", "a", "l", "o", "r", "_", "U", "n", "i", "t", "a", "r", "i", "o">>
Quantidade == <<"Q", "u", "a", "n", "t", "i", "d", "a", "d", "e">>
DT_EMISSAO == <<"D", "T", "_", "E", "M", "I", "S", "S", "A", "O">>
categoria_valor ==
    <<"c", "a", "t", "e", "g", "o", "r", "i", "a", "_", "v", "a", "l", "o", "r">>
STATUS == <<"S", "T", "A", "T", "U", "S">>

NamePool ==
    { ID_Venda, Data, Total_Venda, Categoria, Valor_Unitario, Quantidade,
      DT_EMISSAO, categoria_valor, STATUS }

\* read_csv leaves no two columns with the same name.
Headers ==
    {h \in SeqsUpTo(NamePool, MaxCols) :
        \A i, j \in 1..Len(h) : i # j => h[i] # h[j]}


(***************************************************************************)
(* Tables.  A file is a header and rows of tokens; a frame is the header,  *)
(* one dtype per column and rows of cells.                                 *)
(***************************************************************************)
\* Some of the tokens read_csv reads as missing by default (keep_default_na).
NAValues ==
    { <<>>, <<"N", "A">>, <<"N", "a", "N">>, <<"n", "a", "n">>,
      <<"N", "U", "L", "L">>, <<"n", "u", "l", "l">> }

\* A numeric field under decimal=dec: the token with dec turned into '.' is a
\* number; a token holding the other separator is not.
ParseField(tok, dec) ==
    LET other == IF dec = "," THEN "." ELSE ","
    IN  IF Count(tok, other) > 0 THEN NaN
        ELSE to_numeric([i \in 1..Len(tok) |-> IF tok[i] = dec THEN "." ELSE tok[i]])

RECURSIVE SelectIdx(_, _, _)
\* The rows of seq whose index is in keep, in order, from index i on.
SelectIdx(seq, keep, i) ==
    IF i > Len(seq) THEN <<>>
    ELSE (IF i \in keep THEN <<seq[i]>> ELSE <<>>) \o SelectIdx(seq, keep, i + 1)

\* skip_blank_lines: a line with no character at all is not a row.
BlankLine(row) == \A j \in 1..Len(row) : row[j] = <<>> /\ Len(row) <= 1

IsNumberDtype(d) == d \in {"int64", "float64", "number"}

\* pd.read_csv(file_path, sep=";", decimal=dec, ...): each column is numeric
\* when every token that is not missing parses as a number, and text otherwise.
read_csv(f, dec) ==
    LET lines == SelectIdx(f.rows,
                           {i \in 1..Len(f.rows) : ~BlankLine(f.rows[i])}, 1)
        n == Len(lines)
        m == Len(f.header)
        IsNA(tok) == tok \in NAValues
        numeric(j) ==
            \A i \in 1..n :
                IsNA(lines[i][j]) \/ ParseField(lines[i][j], dec).kind = "num"
        integral(j) ==
            \A i \in 1..n : ~IsNA(lines[i][j]) /\ Count(lines[i][j], dec) = 0
        dtype(j) ==
            IF numeric(j)
            THEN (IF integral(j) /\ n > 0 THEN "int64" ELSE "float64")
            ELSE "object"
        cell(i, j) ==
            IF IsNA(lines[i][j]) THEN NaN
            ELSE IF numeric(j) THEN ParseField(lines[i][j], dec)
            ELSE Str(lines[i][j])
    IN  [names |-> f.header,
         dtypes |-> [j \in 1..m |-> dtype(j)],
         rows |-> [i \in 1..n |-> [j \in 1..m |-> cell(i, j)]]]

\* df.drop_duplicates(): the first occurrence of every row is kept.
drop_duplicates(frame) ==
    [frame EXCEPT !.rows =
        SelectIdx(frame.rows,
                  {i \in 1..Len(frame.rows) :
                      \A j \in 1..(i - 1) : frame.rows[j] # frame.rows[i]}, 1)]

\* df.dropna(how="all"): a row is dropped when every cell of it is missing.
dropna_all(frame) ==
    [frame EXCEPT !.rows =
        SelectIdx(frame.rows,
                  {i \in 1..Len(frame.rows) :
                      \E j \in 1..Len(frame.rows[i]) : frame.rows[i][j] # NaN}, 1)]

CleanFrameKeepingDuplicates(frame) == dropna_all(frame)

\* df_raw.drop_duplicates().dropna(how="all").reset_index(drop=True)
CleanFrame(frame) == dropna_all(drop_duplicates(frame))

DigitChar(d) == CHOOSE c \in Digits : DigitVal(c) = d

RECURSIVE NatToChars(_)
NatToChars(n) ==
    IF n < 10 THEN <<DigitChar(n)>>
    ELSE NatToChars(n \div 10) \o <<DigitChar(n % 10)>>

RECURSIVE PadLeft(_, _)
PadLeft(s, len) == IF Len(s) >= len THEN s ELSE PadLeft(<<"0">> \o s, len)

Abs(n) == IF n < 0 THEN 0 - n ELSE n

\* A number as to_csv writes it: an integer column in digits, a float column
\* with its fraction after dec (12.0 is written "12,0").
FormatNumber(cell, dtype, dec) ==
    LET ds == PadLeft(NatToChars(Abs(cell.num)), cell.scale + 1)
        int == SubSeq(ds, 1, Len(ds) - cell.scale)
        frac == SubSeq(ds, Len(ds) - cell.scale + 1, Len(ds))
        sign == IF cell.num < 0 THEN <<"-">> ELSE <<>>
    IN  IF cell.scale > 0 THEN sign \o int \o <<dec>> \o frac
        ELSE IF dtype = "int64" THEN sign \o int
        ELSE sign \o int \o <<dec, "0">>

FormatRounded(cell, dtype, dec) ==
    LET ds == PadLeft(NatToChars(Abs(cell.num)), cell.scale + 1)
    IN  (IF cell.num < 0 THEN <<"-">> ELSE <<>>) \o SubSeq(ds, 1, Len(ds) - cell.scale)

WriteCell(cell, dtype, dec) ==
    IF cell.kind = "nan" THEN <<>>
    ELSE IF cell.kind = "str" THEN cell.chars
    ELSE FormatNumber(cell, dtype, dec)

WriteCellRounded(cell, dtype, dec) ==
    IF cell.kind = "nan" THEN <<>>
    ELSE IF cell.kind = "str" THEN cell.chars
    ELSE FormatRounded(cell, dtype, dec)

FileOf(header, rows) == [header |-> header, rows |-> rows]

to_csv_rounded(frame) ==
    FileOf(frame.names,
           [i \in 1..Len(frame.rows) |->
               [j \in 1..Len(frame.names) |->
                   WriteCellRounded(frame.rows[i][j], frame.dtypes[j], ",")]])

\* df_clean.to_csv(output_path, index=False, sep=";", decimal=",", ...)
to_csv(frame) ==
    FileOf(frame.names,
           [i \in 1..Len(frame.rows) |->
               [j \in 1..Len(frame.names) |->
                   WriteCell(frame.rows[i][j], frame.dtypes[j], ",")]])

(***************************************************************************)
(* The Ingestion Pipeline and the three public operations.                 *)
(***************************************************************************)
\* A resolver that never tries latin-1.
EncodingsWithoutLatin1 == <<"utf-8", "cp1252">>

\* for enc in ["utf-8", "latin-1", "cp1252"]
Encodings == <<"utf-8", "latin-1", "cp1252">>

\* The fallback read: sep=None, decimal=".", encoding="utf-8", engine="python".
AutoDetect == "auto"

\* The four read_csv calls load_csv_robust can make, each of which raises or not.
ReadKinds == {"utf-8", "latin-1", "cp1252", "auto"}

NoFrame == [names |-> <<>>, dtypes |-> <<>>, rows |-> <<>>]

Column(frame, j) == [i \in 1..Len(frame.rows) |-> frame.rows[i][j]]

\* for col in df.select_dtypes(include="object").columns:
\*     df[col] = coerce_numeric_if_majority(df[col])
CoerceColumns(frame) ==
    LET m == Len(frame.names)
        res == [j \in 1..m |->
                   IF frame.dtypes[j] = "object"
                   THEN coerce_numeric_if_majority(ObjectColumn(Column(frame, j)))
                   ELSE [dtype |-> frame.dtypes[j], cells |-> Column(frame, j)]]
    IN  [names |-> frame.names,
         dtypes |-> [j \in 1..m |-> res[j].dtype],
         rows |-> [i \in 1..Len(frame.rows) |-> [j \in 1..m |-> res[j].cells[i]]]]

\* load_csv_robust after a read succeeded (lines 72-78).
PostRead(frame) == CoerceColumns(dropna_all(drop_duplicates(frame)))

ColIndex(frame, name) == CHOOSE j \in 1..Len(frame.names) : frame.names[j] = name
DtypeOf(frame, name) == frame.dtypes[ColIndex(frame, name)]

\* df.select_dtypes(include="number").columns
NumericColumns(frame) ==
    SelectIdx(frame.names,
              {j \in 1..Len(frame.names) : IsNumberDtype(frame.dtypes[j])}, 1)

\* A date pd.to_datetime(..., errors="coerce") keeps: a number (read as an
\* epoch offset) or a text of the shape dddd-dd-dd; anything else is missing.
IsDate(cell) ==
    \/ cell.kind = "num"
    \/ /\ cell.kind = "str"
       /\ Len(cell.chars) = 10
       /\ \A i \in 1..10 :
             IF i \in {5, 8} THEN cell.chars[i] = "-" ELSE cell.chars[i] \in Digits

\* valid_dates.sum() for the date column
ValidDateCount(frame, name) ==
    Cardinality({i \in 1..Len(frame.rows) : IsDate(frame.rows[i][ColIndex(frame, name)])})

\* df[date_col] = pd.to_datetime(df[date_col], errors="coerce")
ToDatetime(frame, name) ==
    LET c == ColIndex(frame, name)
    IN  [frame EXCEPT
            !.dtypes[c] = "datetime64",
            !.rows = [i \in 1..Len(frame.rows) |->
                         [frame.rows[i] EXCEPT ![c] =
                             IF IsDate(frame.rows[i][c]) THEN frame.rows[i][c] ELSE NaN]]]

ChartShapeCategoryFirst(rl, valid) ==
    IF rl.cat.found /\ rl.value.found THEN "top"
    ELSE IF rl.date.found /\ rl.value.found /\ valid > 0 THEN "monthly"
    ELSE "means"

\* The if / elif / else of lines 185-196.
ChartShape(rl, valid) ==
    IF rl.date.found /\ rl.value.found /\ valid > 0 THEN "monthly"
    ELSE IF rl.cat.found /\ rl.value.found THEN "top"
    ELSE "means"

NoChart == [shape |-> "none", saved |-> FALSE]

NoReturn == [kind |-> "none", by |-> "", exc |-> "", body |-> <<>>]
Text(o, what, body) == [kind |-> what, by |-> o, exc |-> "", body |-> body]
ErrorText(o, e) == [kind |-> "error", by |-> o, exc |-> e, body |-> <<>>]
Escaped(o, e) == [kind |-> "raised", by |-> o, exc |-> e, body |-> <<>>]

CatchFileErrorsOnly(o, e) ==
    IF e \in {"FileNotFoundError", "ValueError"} THEN ErrorText(o, e) ELSE Escaped(o, e)

\* except Exception as e: return f"... {str(e)}" of the operation o.
Catch(o, e) == ErrorText(o, e)

\* nrows=1000
SampleRows == 1000

Min(a, b) == IF a <= b THEN a ELSE b

\* str(df[col].dropna().iloc[0]) if df[col].notna().any() else "-"
Exemplo(cells) ==
    LET present == {i \in 1..Len(cells) : cells[i] # NaN}
    IN  IF present = {} THEN NaN
        ELSE cells[CHOOSE i \in present : \A j \in present : i <= j]

\* One line of csv_info's table per column (lines 261-265).
Diagnostic(frame) ==
    [j \in 1..Len(frame.names) |->
        [coluna |-> frame.names[j],
         tipo |-> frame.dtypes[j],
         nulos |-> Cardinality({i \in 1..Len(frame.rows) : frame.rows[i][j] = NaN}),
         linhas |-> Len(frame.rows),
         exemplo |-> Exemplo(Column(frame, j))]]

(***************************************************************************)
(* SpecCleaner: clean_csv on T followed by T's first k rows, then clean_csv *)
(* on the file the first run wrote.                                        *)
(***************************************************************************)
MaxRows == 3

NoFile == FileOf(<<>>, <<>>)
NoRun == [done |-> FALSE, before |-> 0, after |-> 0]

\* What clean_csv reads, counts and writes when nothing fails.
CleanRun(f) ==
    LET df_raw == read_csv(f, ",")
        df_clean == CleanFrame(df_raw)
    IN  [before |-> Len(df_raw.rows), after |-> Len(df_clean.rows),
         out |-> to_csv(df_clean)]

Tok1 == <<"1">>
Tok1_0 == <<"1", ",", "0">>
Tok1_5 == <<"1", ",", "5">>
TokDez == <<"d", "e", "z">>
TokOk == <<"o", "k">>
TokNA == <<"N", "A">>

\* Rows of a file with the columns Quantidade;STATUS: numbers that differ as
\* text and agree as values, text, and the ways a cell or a row is empty.
CleanerRows ==
    { <<Tok1, TokOk>>, <<Tok1_0, TokOk>>, <<Tok1_5, TokOk>>, <<TokDez, TokOk>>,
      <<<<>>, TokOk>>, <<Tok1, TokNA>>, <<<<>>, <<>>>>, <<<<>>, TokNA>> }

CleanerHeader == <<Quantidade, STATUS>>

DetectIdle == columns = <<>> /\ roles = NoRoles

ConcIdle ==
    /\ now = 0
    /\ inv = <<>>
    /\ outputs = {}

ToolIdle ==
    /\ op = "none"
    /\ file = NoFile
    /\ pc = "idle"
    /\ attempts = <<>>
    /\ df = NoFrame
    /\ num_df = <<>>
    /\ validDates = 0
    /\ report = <<>>
    /\ chart = NoChart
    /\ ret = NoReturn

CleanerIdle ==
    /\ T = <<>>
    /\ k = 0
    /\ disk = NoFile
    /\ run1 = NoRun
    /\ run2 = NoRun

CleanerInit ==
    /\ T \in SeqsUpTo(CleanerRows, MaxRows)
    /\ k \in 0..Len(T)
    /\ disk = NoFile
    /\ run1 = NoRun
    /\ run2 = NoRun
    /\ CoerceIdle
    /\ DetectIdle
    /\ ToolIdle
    /\ ConcIdle

CleanFirst ==
    /\ ~run1.done
    /\ LET r == CleanRun(FileOf(CleanerHeader, T \o SubSeq(T, 1, k)))
       IN  /\ disk' = r.out
           /\ run1' = [done |-> TRUE, before |-> r.before, after |-> r.after]
    /\ UNCHANGED <<T, k, run2, coerceVars, detectVars, toolVars, concVars>>

CleanSecond ==
    /\ run1.done
    /\ ~run2.done
    /\ LET r == CleanRun(disk)
       IN  /\ disk' = r.out
           /\ run2' = [done |-> TRUE, before |-> r.before, after |-> r.after]
    /\ UNCHANGED <<T, k, run1, coerceVars, detectVars, toolVars, concVars>>

CleanerNext == CleanFirst \/ CleanSecond

SpecCleaner == CleanerInit /\ [][CleanerNext]_vars

(***************************************************************************)
(* SpecDetect, continued.                                                  *)
(***************************************************************************)
DetectInit ==
    /\ columns \in Headers
    /\ roles = NoRoles
    /\ CoerceIdle
    /\ CleanerIdle
    /\ ToolIdle
    /\ ConcIdle

Detect ==
    /\ ~roles.done
    /\ roles' = detectar_colunas(columns)
    /\ UNCHANGED <<columns, coerceVars, cleanerVars, toolVars, concVars>>

SpecDetect == DetectInit /\ [][Detect]_vars

(***************************************************************************)
(* SpecCoerce, continued.                                                  *)
(***************************************************************************)
CoerceInit ==
    /\ series \in CoerceInputs
    /\ coerced = Unset
    /\ DetectIdle
    /\ CleanerIdle
    /\ ToolIdle
    /\ ConcIdle

Coerce ==
    /\ coerced = Unset
    /\ coerced' = coerce_numeric_if_majority(series)
    /\ UNCHANGED <<series, detectVars, cleanerVars, toolVars, concVars>>

SpecCoerce == CoerceInit /\ [][Coerce]_vars

(***************************************************************************)
(* Spec: one invocation of analyze_csv, clean_csv or csv_info on one file. *)
(* A step that calls into a library may fail for a reason of the           *)
(* environment (a missing optional package, a full disk): "EnvError".      *)
(***************************************************************************)
D20240105 == <<"2", "0", "2", "4", "-", "0", "1", "-", "0", "5">>
D20240201 == <<"2", "0", "2", "4", "-", "0", "2", "-", "0", "1">>
Invalida == <<"i", "n", "v", "a", "l", "i", "d", "a">>

Absent == [name |-> <<>>, toks |-> <<<<>>, <<>>, <<>>>>]
QuantidadeColumns ==
    {Absent, [name |-> Quantidade, toks |-> <<<<"1">>, <<"2">>, <<"3">>>>]}
DataColumns ==
    {Absent,
     [name |-> Data, toks |-> <<D20240105, Invalida, D20240201>>],
     [name |-> Data, toks |-> <<Invalida, Invalida, Invalida>>]}
\* Total_Venda read as numbers, coerced from "R$ 5", and kept as text (2 of 3).
TotalColumns ==
    {Absent,
     [name |-> Total_Venda, toks |-> <<<<"5">>, <<"1", "0">>, <<"7">>>>],
     [name |-> Total_Venda,
      toks |-> <<<<"R", "$", " ", "5">>, <<"R", "$", " ", "1", "0">>,
                 <<"R", "$", " ", "7">>>>],
     [name |-> Total_Venda, toks |-> <<<<"5">>, <<"1", "0">>, TokDez>>]}
CategoriaColumns ==
    {Absent, [name |-> Categoria, toks |-> <<<<"A">>, <<"B">>, <<"A">>>>]}

Present(cols) ==
    SelectIdx(cols, {j \in 1..Len(cols) : cols[j] # Absent}, 1)

Contents ==
    {Present(<<q, d, t, c>>) :
        q \in QuantidadeColumns, d \in DataColumns,
        t \in TotalColumns, c \in CategoriaColumns} \ {<<>>}

ExistingFile(cols, ok) ==
    [exists |-> TRUE, ok |-> ok,
     header |-> [j \in 1..Len(cols) |-> cols[j].name],
     rows |-> [i \in 1..3 |-> [j \in 1..Len(cols) |-> cols[j].toks[i]]]]

MissingFile ==
    [exists |-> FALSE, ok |-> [e \in ReadKinds |-> FALSE],
     header |-> <<>>, rows |-> <<>>]

ToolFiles ==
    {MissingFile}
        \cup {ExistingFile(cols, ok) : cols \in Contents, ok \in [ReadKinds -> BOOLEAN]}

Init ==
    /\ op \in {"analyze", "clean", "info"}
    /\ file \in ToolFiles
    /\ pc = "call"
    /\ attempts = <<>>
    /\ df = NoFrame
    /\ num_df = <<>>
    /\ validDates = 0
    /\ report = <<>>
    /\ chart = NoChart
    /\ ret = NoReturn
    /\ roles = NoRoles
    /\ disk = NoFile
    /\ run1 = NoRun
    /\ CoerceIdle
    /\ columns = <<>>
    /\ T = <<>>
    /\ k = 0
    /\ run2 = NoRun
    /\ ConcIdle

\* An exception reaches the operation's except clause, which returns.
Raise(e) ==
    /\ pc' = "done"
    /\ ret' = Catch(op, e)

idleVars == <<series, coerced, columns, T, k, run2, op, file, concVars>>

\* load_csv_robust, lines 37-39.
LoadExists ==
    /\ op = "analyze"
    /\ pc = "call"
    /\ IF file.exists THEN pc' = "read" /\ UNCHANGED ret
       ELSE Raise("FileNotFoundError")
    /\ UNCHANGED <<idleVars, roles, disk, run1, attempts, df, num_df,
                   validDates, report, chart>>

\* One turn of the loop of lines 44-55.
LoadTry ==
    /\ op = "analyze"
    /\ pc = "read"
    /\ LET enc == Encodings[Len(attempts) + 1]
       IN  /\ attempts' = Append(attempts, enc)
           /\ IF file.ok[enc]
              THEN /\ df' = read_csv(file, ",")
                   /\ pc' = "post"
              ELSE /\ UNCHANGED df
                   /\ pc' = IF Len(attempts) + 1 < Len(Encodings)
                            THEN "read" ELSE "fallback"
    /\ UNCHANGED <<idleVars, roles, disk, run1, num_df, validDates, report,
                   chart, ret>>

\* Lines 58-69.
LoadFallback ==
    /\ op = "analyze"
    /\ pc = "fallback"
    /\ attempts' = Append(attempts, AutoDetect)
    /\ IF file.ok[AutoDetect]
       THEN /\ df' = read_csv(file, ".")
            /\ pc' = "post"
            /\ UNCHANGED ret
       ELSE /\ UNCHANGED df
            /\ Raise("ValueError")
    /\ UNCHANGED <<idleVars, roles, disk, run1, num_df, validDates, report, chart>>

\* Lines 72-78.
LoadPost ==
    /\ op = "analyze"
    /\ pc = "post"
    /\ df' = PostRead(df)
    /\ pc' = "detect"
    /\ UNCHANGED <<idleVars, roles, disk, run1, attempts, num_df, validDates,
                   report, chart, ret>>

\* Line 112.
AnalyzeDetect ==
    /\ pc = "detect"
    /\ roles' = detectar_colunas(df.names)
    /\ pc' = "summary"
    /\ UNCHANGED <<idleVars, disk, run1, attempts, df, num_df, validDates,
                   report, chart, ret>>

\* Lines 114-127: the title and, over the numeric columns, the summary.
AnalyzeSummary ==
    /\ pc = "summary"
    /\ \E fails \in BOOLEAN :
          IF fails /\ NumericColumns(df) # <<>>
          THEN Raise("EnvError") /\ UNCHANGED <<num_df, report>>
          ELSE /\ num_df' = NumericColumns(df)
               /\ report' = <<"title">> \o
                    (IF NumericColumns(df) # <<>> THEN <<"summary">> ELSE <<>>)
               /\ pc' = "financial"
               /\ UNCHANGED ret
    /\ UNCHANGED <<idleVars, roles, disk, run1, attempts, df, validDates, chart>>

\* Lines 130-137: sum, mean and max of a text column raise.
AnalyzeFinancial ==
    /\ pc = "financial"
    /\ IF ~roles.value.found
       THEN pc' = "monthly" /\ UNCHANGED <<report, ret>>
       ELSE IF ~IsNumberDtype(DtypeOf(df, roles.value.name))
       THEN Raise("TypeError") /\ UNCHANGED report
       ELSE /\ report' = Append(report, "financial")
            /\ pc' = "monthly"
            /\ UNCHANGED ret
    /\ UNCHANGED <<idleVars, roles, disk, run1, attempts, df, num_df,
                   validDates, chart>>

\* Lines 140-153.
AnalyzeMonthly ==
    /\ pc = "monthly"
    /\ IF ~(roles.date.found /\ roles.value.found)
       THEN pc' = "top" /\ UNCHANGED <<df, validDates, report, ret>>
       ELSE LET valid == ValidDateCount(df, roles.date.name)
                parsed == ToDatetime(df, roles.date.name)
            IN  \E fails \in BOOLEAN :
                   IF valid > 0 /\ (fails \/ ~IsNumberDtype(DtypeOf(parsed, roles.value.name)))
                   THEN /\ Raise(IF fails THEN "EnvError" ELSE "TypeError")
                        /\ UNCHANGED <<df, validDates, report>>
                   ELSE /\ df' = parsed
                        /\ validDates' = valid
                        /\ report' = report \o <<"invalid_dates">> \o
                             (IF valid > 0 THEN <<"monthly">> ELSE <<>>)
                        /\ pc' = "top"
                        /\ UNCHANGED ret
    /\ UNCHANGED <<idleVars, roles, disk, run1, attempts, num_df, chart>>

\* Lines 156-163.
AnalyzeTop ==
    /\ pc = "top"
    /\ IF ~roles.cat.found
       THEN pc' = "outliers" /\ UNCHANGED <<report, ret>>
       ELSE \E fails \in BOOLEAN :
               IF fails \/ (roles.value.found
                            /\ ~IsNumberDtype(DtypeOf(df, roles.value.name)))
               THEN /\ Raise(IF fails THEN "EnvError" ELSE "TypeError")
                    /\ UNCHANGED report
               ELSE /\ report' = Append(report,
                         IF roles.value.found THEN "top_by_value" ELSE "top_by_count")
                    /\ pc' = "outliers"
                    /\ UNCHANGED ret
    /\ UNCHANGED <<idleVars, roles, disk, run1, attempts, df, num_df,
                   validDates, chart>>

\* Lines 166-178: the outliers of the value column, then the question.
AnalyzeOutliers ==
    /\ pc = "outliers"
    /\ IF roles.value.found /\ ~IsNumberDtype(DtypeOf(df, roles.value.name))
       THEN Raise("TypeError") /\ UNCHANGED report
       ELSE /\ report' = report
                 \o (IF roles.value.found THEN <<"outliers">> ELSE <<>>)
                 \o <<"question">>
            /\ pc' = "chart"
            /\ UNCHANGED ret
    /\ UNCHANGED <<idleVars, roles, disk, run1, attempts, df, num_df,
                   validDates, chart>>

\* Lines 182-205: the inner try.  The bar of means of no column raises.
AnalyzeChart ==
    /\ pc = "chart"
    /\ LET shape == ChartShape(roles, validDates)
       IN  \E fails \in BOOLEAN :
              IF fails \/ (shape = "means" /\ num_df = <<>>)
              THEN /\ chart' = [shape |-> shape, saved |-> FALSE]
                   /\ report' = Append(report, "chart_warning")
              ELSE /\ chart' = [shape |-> shape, saved |-> TRUE]
                   /\ report' = Append(report, "chart_saved")
    /\ pc' = "return"
    /\ UNCHANGED <<idleVars, roles, disk, run1, attempts, df, num_df,
                   validDates, ret>>

\* Line 207.
AnalyzeReturn ==
    /\ pc = "return"
    /\ ret' = Text(op, "report", report)
    /\ pc' = "done"
    /\ UNCHANGED <<idleVars, roles, disk, run1, attempts, df, num_df,
                   validDates, report, chart>>

\* clean_csv, lines 223-227.
CleanRead ==
    /\ op = "clean"
    /\ pc = "call"
    /\ attempts' = <<Encodings[1]>>
    /\ IF ~file.exists THEN Raise("FileNotFoundError") /\ UNCHANGED <<df, run1>>
       ELSE IF ~file.ok[Encodings[1]] THEN Raise("ReadError") /\ UNCHANGED <<df, run1>>
       ELSE LET df_raw == read_csv(file, ",")
            IN  /\ df' = CleanFrame(df_raw)
                /\ run1' = [done |-> FALSE, before |-> Len(df_raw.rows),
                            after |-> Len(CleanFrame(df_raw).rows)]
                /\ pc' = "write"
                /\ UNCHANGED ret
    /\ UNCHANGED <<idleVars, roles, disk, num_df, validDates, report, chart>>

\* clean_csv, lines 229-237.
CleanWrite ==
    /\ op = "clean"
    /\ pc = "write"
    /\ \E fails \in BOOLEAN :
          IF fails THEN Raise("EnvError") /\ UNCHANGED <<disk, run1>>
          ELSE /\ disk' = to_csv(df)
               /\ run1' = [run1 EXCEPT !.done = TRUE]
               /\ ret' = Text(op, "status",
                              <<run1.before, run1.after, run1.before - run1.after>>)
               /\ pc' = "done"
    /\ UNCHANGED <<idleVars, roles, attempts, df, num_df, validDates, report, chart>>

\* csv_info, lines 252-255.
InfoRead ==
    /\ op = "info"
    /\ pc = "call"
    /\ attempts' = <<Encodings[1]>>
    /\ IF ~file.exists THEN Raise("FileNotFoundError") /\ UNCHANGED df
       ELSE IF ~file.ok[Encodings[1]] THEN Raise("ReadError") /\ UNCHANGED df
       ELSE /\ df' = read_csv(
                       [file EXCEPT !.rows =
                           SubSeq(file.rows, 1, Min(SampleRows, Len(file.rows)))], ",")
            /\ pc' = "table"
            /\ UNCHANGED ret
    /\ UNCHANGED <<idleVars, roles, disk, run1, num_df, validDates, report, chart>>

\* csv_info, lines 257-267.
InfoBuild ==
    /\ op = "info"
    /\ pc = "table"
    /\ \E fails \in BOOLEAN :
          IF fails THEN Raise("EnvError")
          ELSE /\ ret' = Text(op, "diagnostic", Diagnostic(df))
               /\ pc' = "done"
    /\ UNCHANGED <<idleVars, roles, disk, run1, attempts, df, num_df,
                   validDates, report, chart>>

Next ==
    \/ LoadExists \/ LoadTry \/ LoadFallback \/ LoadPost
    \/ AnalyzeDetect \/ AnalyzeSummary \/ AnalyzeFinancial \/ AnalyzeMonthly
    \/ AnalyzeTop \/ AnalyzeOutliers \/ AnalyzeChart \/ AnalyzeReturn
    \/ CleanRead \/ CleanWrite \/ InfoRead \/ InfoBuild

Spec == Init /\ [][Next]_vars

(***************************************************************************)
(* SpecConcurrent: two invocations in flight, each naming its output file  *)
(* and then writing it, while the clock runs.                              *)
(***************************************************************************)
MaxNow == 3
TicksPerSecond == 2

Invocations == {1, 2}

\* datetime.now().strftime('%Y%m%d_%H%M%S'): the time to the second.
strftime(t) == t \div TicksPerSecond

NoPath == [kind |-> "none", stamp |-> 0, name |-> <<>>]

\* os.path.abspath(f"outputs/{chart_name}") with chart_name chart_<stamp>.png
ChartPath(t) == [kind |-> "chart", stamp |-> strftime(t), name |-> <<>>]

NotDot(c) == c # "."

\* os.path.abspath(f"outputs/{output_name}"): the path with its "." components
\* dropped (output_name is given here by its components).
CleanedPath(output_name) ==
    [kind |-> "csv", stamp |-> 0, name |-> SelectSeq(output_name, NotDot)]

OutputNames == { <<"cleaned.csv">>, <<".", "cleaned.csv">>, <<"vendas.csv">> }

Calls ==
    {[op |-> "analyze", output_name |-> <<>>, at |-> "running", path |-> NoPath]}
        \cup {[op |-> "clean", output_name |-> n, at |-> "running", path |-> NoPath] :
                n \in OutputNames}

ConcInit ==
    /\ now = 0
    /\ inv \in [Invocations -> Calls]
    /\ outputs = {}
    /\ CoerceIdle
    /\ DetectIdle
    /\ CleanerIdle
    /\ ToolIdle

restVars == <<coerceVars, detectVars, cleanerVars, toolVars>>

Tick ==
    /\ now < MaxNow
    /\ now' = now + 1
    /\ UNCHANGED <<inv, outputs, restVars>>

\* analyze_csv, lines 199-200.
ChartName(p) ==
    /\ inv[p].op = "analyze"
    /\ inv[p].at = "running"
    /\ inv' = [inv EXCEPT ![p].at = "named", ![p].path = ChartPath(now)]
    /\ UNCHANGED <<now, outputs, restVars>>

\* clean_csv, line 229.
CleanedName(p) ==
    /\ inv[p].op = "clean"
    /\ inv[p].at = "running"
    /\ inv' = [inv EXCEPT ![p].at = "named",
                          ![p].path = CleanedPath(inv[p].output_name)]
    /\ UNCHANGED <<now, outputs, restVars>>

\* plt.savefig(chart_path, ...) and df_clean.to_csv(output_path, ...)
Save(p) ==
    /\ inv[p].at = "named"
    /\ inv' = [inv EXCEPT ![p].at = "saved"]
    /\ outputs' = outputs \cup {[by |-> p, path |-> inv[p].path]}
    /\ UNCHANGED <<now, restVars>>

ConcNext ==
    \/ Tick
    \/ \E p \in Invocations : ChartName(p) \/ CleanedName(p) \/ Save(p)

SpecConcurrent == ConcInit /\ [][ConcNext]_vars

(***************************************************************************)
(* Claims about the Numeric Coercion Filter (SpecCoerce).                  *)
(***************************************************************************)
\* A cell parses as a number after the strip and the comma replacement.
Parseable(cell) ==
    to_numeric(ReplaceComma(StripNonNumeric(astype_str(cell)))).kind = "num"

ParsedCount(cells) == Cardinality({i \in 1..Len(cells) : Parseable(cells[i])})

Quantidade3 == <<S5, S10, Sdez>>
Quantidade4 == <<S5, S10, Sdez, S7>>
Mixed4 ==
    << Str(<<"R", "$", " ", "1", ",", "5", "0">>), Str(<<"-", "2", ".", "5">>),
       Str(<<"1", ".", "2", ".", "3">>), S10 >>

\* C1: with p of n cells parseable, p/n >= 0.70 yields a numeric column whose
\* non-parseable cells, and only those, are missing and whose other cells hold
\* their parsed value; p/n < 0.70 yields the original column, cell for cell.
\* "5","10","dez" stays text; "5","10","dez","7" becomes 5, 10, missing, 7.
C1_MajorityCoercion ==
    coerced # Unset =>
        LET cells == series.cells
            n == Len(cells)
            p == ParsedCount(cells)
        IN  /\ IF n > 0 /\ 100 * p >= 70 * n
               THEN /\ coerced.dtype = "number"
                    /\ Len(coerced.cells) = n
                    /\ \A i \in 1..n :
                          IF Parseable(cells[i])
                          THEN /\ coerced.cells[i].kind = "num"
                               /\ coerced.cells[i] =
                                    to_numeric(ReplaceComma(
                                        StripNonNumeric(astype_str(cells[i]))))
                          ELSE coerced.cells[i] = NaN
               ELSE coerced = series
            /\ cells = Quantidade3 => coerced = ObjectColumn(Quantidade3)
            /\ cells = Quantidade4 =>
                  coerced = [dtype |-> "number",
                             cells |-> <<Num(5, 0), Num(10, 0), NaN, Num(7, 0)>>]
            /\ cells = Mixed4 =>
                  coerced = [dtype |-> "number",
                             cells |-> <<Num(15, 1), Num(0 - 25, 1), NaN, Num(10, 0)>>]

C1_Witness ==
    /\ coerced # Unset
    /\ series.cells = Quantidade4
    /\ coerced.dtype = "number"
    /\ coerced.cells[3] = NaN

Letters ==
    {UpperCase[j] : j \in 1..26} \cup {LowerCase[j] : j \in 1..26}

\* A textual identifier with embedded digits: a string with a letter and a digit.
IsTextIdentifier(cell) ==
    /\ cell.kind = "str"
    /\ \E i \in 1..Len(cell.chars) : cell.chars[i] \in Letters
    /\ \E i \in 1..Len(cell.chars) : cell.chars[i] \in Digits

\* C2: a text column whose every cell is a textual identifier with embedded
\* digits ("Cliente_1234") is returned unchanged by the filter.
C2_TextIdentifiersStayText ==
    ( /\ coerced # Unset
      /\ Len(series.cells) > 0
      /\ \A i \in 1..Len(series.cells) : IsTextIdentifier(series.cells[i]) )
        => coerced = series

(***************************************************************************)
(* Claims about the Column Role Detector (SpecDetect).                     *)
(***************************************************************************)
Matching(cols, keywords) ==
    {i \in 1..Len(cols) :
        \E j \in 1..Len(keywords) : Contains(lower(cols[i]), keywords[j])}

FirstOf(cols, keywords) ==
    LET M == Matching(cols, keywords)
    IN  IF M = {} THEN None
        ELSE Found(cols[CHOOSE i \in M : \A j \in M : i <= j])

Range(f) == {f[i] : i \in DOMAIN f}

\* C5: each role, independently, is the leftmost column whose lowercased name
\* contains a keyword of the role, and none when no name matches; the columns
\* ID_Venda, Data, Total_Venda, Categoria in any order give Data as date,
\* Total_Venda as value and Categoria as category.
C5_FirstMatchPerRole ==
    roles.done =>
        /\ roles.value = FirstOf(columns, ValueKeywords)
        /\ roles.date = FirstOf(columns, DateKeywords)
        /\ roles.cat = FirstOf(columns, CatKeywords)
        /\ Range(columns) = {ID_Venda, Data, Total_Venda, Categoria} =>
              /\ roles.date = Found(Data)
              /\ roles.value = Found(Total_Venda)
              /\ roles.cat = Found(Categoria)

C5_Witness ==
    /\ roles.done
    /\ columns = <<Categoria, Total_Venda, ID_Venda, Data>>
    /\ roles.value = Found(Total_Venda)

(***************************************************************************)
(* Claims about the Cleaner (SpecCleaner).                                 *)
(***************************************************************************)
\* C6: clean_csv run on the file clean_csv wrote removes no row: the second
\* run reports as many rows after as before.
C6_CleanerIdempotent ==
    run2.done => /\ run2.before = run2.after
                 /\ run2.before = run1.after

C6_Witness ==
    /\ run2.done
    /\ run1.before > run1.after
    /\ run1.after >= 2

\* The rows of T as read_csv reads them, and those a cleaned T keeps.
ParsedT == read_csv(FileOf(CleanerHeader, T), ",").rows
AllMissing(row) == \A j \in 1..Len(row) : row[j] = NaN
DistinctRows == {r \in Range(ParsedT) : ~AllMissing(r)}

\* C7 as stated: cleaning T followed by its first k rows removes exactly k
\* rows and leaves |T|.
C7_RemovesExactlyK ==
    run1.done => /\ run1.before - run1.after = k
                 /\ run1.after = Len(T)

\* C7 as amended: it leaves the d distinct, not fully empty rows of T and
\* removes k + (|T| - d) rows, which is k exactly when T has neither a
\* duplicate nor a fully empty row.
C7_RemovesKPlusOwnDuplicates ==
    run1.done =>
        LET d == Cardinality(DistinctRows)
        IN  /\ run1.before = Len(T) + k
            /\ run1.after = d
            /\ run1.before - run1.after = k + (Len(T) - d)
            /\ (run1.before - run1.after = k) <=> (d = Len(T))

C7_Witness ==
    /\ run1.done
    /\ k >= 2
    /\ Cardinality(DistinctRows) = Len(T)
    /\ run1.before - run1.after = k

(***************************************************************************)
(* Claims about the public operations (Spec).                              *)
(***************************************************************************)
AnyReadable == \E e \in ReadKinds : file.ok[e]

\* The statements at which an operation has a next step to take.
Statements(o) ==
    CASE o = "analyze" ->
            {"call", "read", "fallback", "post", "detect", "summary", "financial",
             "monthly", "top", "outliers", "chart", "return"}
      [] o = "clean" -> {"call", "write"}
      [] o = "info" -> {"call", "table"}

\* C3: no operation raises past its boundary: each runs on until it returns,
\* what it returns is a text, and a failure that was not absorbed earlier (a
\* missing or unreadable file, a failing section, a failing write) ends in
\* the operation's own error message.
C3_NeverRaisesPastBoundary ==
    /\ ret.kind # "raised"
    /\ pc # "done" => ret = NoReturn /\ pc \in Statements(op)
    /\ pc = "done" =>
          /\ ret.kind \in {"report", "status", "diagnostic", "error"}
          /\ ret.by = op
          /\ ret.kind = "report" <=> (op = "analyze" /\ ret.exc = "")
          /\ ret.kind = "status" <=> (op = "clean" /\ ret.exc = "")
          /\ ret.kind = "diagnostic" <=> (op = "info" /\ ret.exc = "")
          /\ ret.kind = "error" <=> ret.exc # ""
          /\ ~file.exists => ret = ErrorText(op, "FileNotFoundError")
          /\ (file.exists /\ ~AnyReadable /\ op = "analyze")
                => ret = ErrorText(op, "ValueError")
          /\ (file.exists /\ ~file.ok["utf-8"] /\ op # "analyze")
                => ret = ErrorText(op, "ReadError")

C3_Witness ==
    /\ pc = "done"
    /\ op = "clean"
    /\ ret = ErrorText("clean", "EnvError")
    /\ run1.before > 0

FullOrder == <<"utf-8", "latin-1", "cp1252", "auto">>

DecimalOf(kind) == IF kind = "auto" THEN "." ELSE ","

\* C4: a missing path fails with FileNotFound before any read; otherwise the
\* reads are tried in the order utf-8, latin-1, cp1252, auto-detect, the first
\* that does not fail gives the table and ends the attempts, and UnreadableFile
\* needs all four to have failed.  A file that fails as utf-8 and reads as
\* latin-1 is ingested with latin-1 and never ends in UnreadableFile.
C4_ResolverOrder ==
    op = "analyze" =>
        LET n == Len(attempts)
            loaded == pc \notin {"call", "read", "fallback"} /\ n > 0
                        /\ file.ok[attempts[n]]
        IN  /\ n <= 4 /\ attempts = SubSeq(FullOrder, 1, n)
            /\ \A i \in 1..(n - 1) : ~file.ok[attempts[i]]
            /\ ~file.exists =>
                  /\ n = 0
                  /\ pc = "done" => ret = ErrorText(op, "FileNotFoundError")
            /\ pc = "post" =>
                  /\ loaded
                  /\ df = read_csv(file, DecimalOf(attempts[n]))
            /\ pc = "detect" =>
                  /\ loaded
                  /\ df = PostRead(read_csv(file, DecimalOf(attempts[n])))
            /\ (file.exists /\ pc = "done") =>
                  /\ ret.exc # "FileNotFoundError"
                  /\ ret.exc = "ValueError" <=> ~AnyReadable
                  /\ ret.exc = "ValueError" => attempts = FullOrder
                  /\ AnyReadable => loaded
            /\ (file.exists /\ ~file.ok["utf-8"] /\ file.ok["latin-1"]
                  /\ pc \notin {"call", "read"}) =>
                  /\ attempts = <<"utf-8", "latin-1">>
                  /\ ret.exc # "ValueError"

C4_Witness ==
    /\ op = "analyze"
    /\ pc = "detect"
    /\ attempts = <<"utf-8", "latin-1">>
    /\ ~file.ok["cp1252"]
    /\ ~file.ok["auto"]
    /\ Len(df.rows) = 3

\* C9: every file the Resolver reads gives a report, not the error line,
\* whatever columns stayed text and whatever roles are missing (a failure of
\* the environment aside).
C9_ReadableFileGivesReport ==
    ( /\ op = "analyze"
      /\ pc = "done"
      /\ file.exists
      /\ AnyReadable
      /\ ret.exc # "EnvError" ) => ret.kind = "report"

InReport(section) == \E i \in 1..Len(report) : report[i] = section

\* The chart section is appended to a report whose earlier sections stay.
ChartSectionAppended ==
    pc = "chart" =>
        /\ Len(report') = Len(report) + 1
        /\ SubSeq(report', 1, Len(report)) = report
        /\ report'[Len(report')] =
              IF chart'.saved THEN "chart_saved" ELSE "chart_warning"
        /\ pc' = "return"

ReportReturned == (pc = "return" /\ pc' = "done") => ret' = Text(op, "report", report)

\* C10 as stated: the monthly bar when the monthly trend was reported, else
\* the top-categories bar whenever a category ranking was reported, else the
\* bar of means.
C10_ChartFollowsAnyRanking ==
    chart.shape # "none" =>
        /\ chart.shape =
              IF InReport("monthly") THEN "monthly"
              ELSE IF InReport("top_by_value") \/ InReport("top_by_count") THEN "top"
              ELSE "means"
        /\ InReport("chart_warning") <=> ~chart.saved

\* C10 as amended: the top-categories bar is chosen only for a ranking by
\* summed value (category and value roles both present); a ranking by row
\* count falls through to the bar of means.  A failed rendering appends a
\* warning line after the earlier sections, which are returned unchanged.
C10_ChartFollowsValueRanking ==
    /\ [](chart.shape # "none" =>
            /\ chart.shape =
                  IF InReport("monthly") THEN "monthly"
                  ELSE IF InReport("top_by_value") THEN "top"
                  ELSE "means"
            /\ InReport("chart_warning") <=> ~chart.saved
            /\ InReport("chart_saved") <=> chart.saved)
    /\ [][ChartSectionAppended /\ ReportReturned]_vars

C10_Witness ==
    /\ pc = "done"
    /\ chart = [shape |-> "means", saved |-> FALSE]
    /\ InReport("top_by_count")
    /\ ret.kind = "report"
    /\ ret.body = <<"title", "summary", "top_by_count", "question", "chart_warning">>

(***************************************************************************)
(* Claims about concurrent invocations (SpecConcurrent).                   *)
(***************************************************************************)
\* C8: two analyze_csv invocations, and two clean_csv invocations given
\* different output names, never write the same file.
C8_DistinctOutputFiles ==
    \A w1, w2 \in outputs :
        ( /\ w1.by # w2.by
          /\ inv[w1.by].op = inv[w2.by].op
          /\ inv[w1.by].op = "clean" =>
                inv[w1.by].output_name # inv[w2.by].output_name )
            => w1.path # w2.path

====
